---------------------------- MODULE Spec2Model ----------------------------
(***************************************************************************)
(* Model of src/src/App.tsx: the product table (add / remove / update /    *)
(* reset), the category registry (addCategory), the per-category summary   *)
(* (total, subtotal, share, sorted rows) and the localStorage mirror       *)
(* (loadLS / saveLS).                                                      *)
(*                                                                         *)
(* Text that the code inspects character by character (category labels,    *)
(* the text typed in the "new category" field) is a sequence of one-       *)
(* character strings; "" is << >>.  A JavaScript number is a tagged record *)
(* so that NaN and null can sit in a numeric field.  A share is the exact  *)
(* fraction num/den (the code's sum / total * 100 is [num |-> sum * 100,   *)
(* den |-> total]).                                                        *)
(***************************************************************************)
EXTENDS Integers, Sequences, FiniteSets

VARIABLES
    categories,     \* useState<Category[]>            (App.tsx 76-78)
    products,       \* useState<Product[]>             (App.tsx 80-85)
    newCat,         \* useState("") of the dialog      (App.tsx 124)
    openAddCat,     \* useState(false) of the dialog   (App.tsx 123)
    lsProducts,     \* localStorage["app.products"]    (App.tsx 46)
    lsCategories,   \* localStorage["app.categories"]  (App.tsx 47)
    catched,        \* per key: the last saveLS logged "CATCHED" (App.tsx 63-65)
    summary,        \* { totalSum, rows } of useMemo   (App.tsx 91-107)
    rendered        \* the component has rendered: summary is that of products

vars == <<categories, products, newCat, openAddCat, lsProducts, lsCategories,
          catched, summary, rendered>>

----------------------------------------------------------------------------
(* Bounds of the model *)

MaxIds == 3         \* ids uuid() draws from
MaxRows == 1        \* in Spec, addRow is taken below this many rows (two to start with)
MaxStoreRows == 3   \* in SpecStore, addRow is taken below this many rows
MaxCats == 3        \* labels of the category set
MaxTextLen == 3     \* characters typed in the dialog's field, in SpecCat
MaxAggLen == 3      \* products given to the summary, in SpecAgg

----------------------------------------------------------------------------
(* JavaScript values *)

Num(n) == [t |-> "num", v |-> n]
NaN == [t |-> "nan", v |-> 0]
Null == [t |-> "null", v |-> 0]

\* Number(x) || 0 : NaN, null and 0 all give 0 (App.tsx 95)
NumberOrZero(x) == IF x.t = "num" THEN x.v ELSE 0

EmptyText == << >>
Xitoy == <<"X", "i", "t", "o", "y">>
Ozbekiston == <<"O", "'", "z", "b", "e", "k", "i", "s", "t", "o", "n">>
DefaultCategories == <<Xitoy, Ozbekiston>>

WhiteSpace == {" ", "\t", "\n"}

\* String.prototype.trim
RECURSIVE TrimStart(_)
TrimStart(s) ==
    IF s # << >> /\ Head(s) \in WhiteSpace THEN TrimStart(Tail(s)) ELSE s

RECURSIVE TrimEnd(_)
TrimEnd(s) ==
    IF s # << >> /\ s[Len(s)] \in WhiteSpace
    THEN TrimEnd(SubSeq(s, 1, Len(s) - 1))
    ELSE s

Trim(s) == TrimEnd(TrimStart(s))

\* A variant of Includes: the test for a label already there is missing.
IncludesNever(arr, x) == FALSE

\* Array.prototype.includes on an array of strings
Includes(arr, x) == \E i \in 1..Len(arr) : arr[i] = x

----------------------------------------------------------------------------
(* Persistence: loadLS / saveLS over localStorage *)

Absent == [kind |-> "absent", val |-> << >>]        \* getItem gives null
Garbage == [kind |-> "garbage", val |-> << >>]      \* text JSON.parse rejects

\* JSON.stringify of a number: NaN is written as null
JsonNumber(x) == IF x.t = "nan" THEN Null ELSE x

JsonProduct(p) ==
    [id |-> p.id, name |-> p.name, qty |-> JsonNumber(p.qty),
     price |-> JsonNumber(p.price), category |-> p.category]

StringifyProducts(ps) ==
    [kind |-> "json", val |-> [i \in 1..Len(ps) |-> JsonProduct(ps[i])]]

StringifyCategories(cs) == [kind |-> "json", val |-> cs]

\* JSON.parse of a text JSON.stringify wrote
JsonParse(raw) == raw.val

\* A variant of LoadLS: the test of raw is inverted, the stored text is never parsed.
LoadFallback(raw, fallback) == fallback

\* loadLS: the fallback for a missing key (getItem gives null) and for text
\* that JSON.parse throws on
LoadLS(raw, fallback) ==
    IF raw.kind = "absent" THEN fallback
    ELSE IF raw.kind = "garbage" THEN fallback
    ELSE JsonParse(raw)

\* saveLS: setItem may throw (quota); the catch leaves the old text in place
SaveLS(old, text, ok) == IF ok THEN text ELSE old

\* saveLS's catch block ran
Catched(ok) == ~ok

----------------------------------------------------------------------------
(* The summary: useMemo over products *)

LineTotal(p) == NumberOrZero(p.qty) * NumberOrZero(p.price)

\* A variant of TotalOf: the no-category test stands before total += sum.
RECURSIVE TotalOfCategorised(_)
TotalOfCategorised(ps) ==
    IF ps = << >> THEN 0
    ELSE TotalOfCategorised(SubSeq(ps, 1, Len(ps) - 1))
            + (IF ps[Len(ps)].category = << >> THEN 0 ELSE LineTotal(ps[Len(ps)]))

\* total += sum, over the whole list
RECURSIVE TotalOf(_)
TotalOf(ps) ==
    IF ps = << >> THEN 0 ELSE TotalOf(SubSeq(ps, 1, Len(ps) - 1)) + LineTotal(ps[Len(ps)])

\* map.set(cat, (map.get(cat) ?? 0) + sum) on a Map kept in insertion order
MapSet(m, cat, sum) ==
    IF \E i \in 1..Len(m) : m[i].cat = cat
    THEN [i \in 1..Len(m) |->
            IF m[i].cat = cat THEN [cat |-> cat, sum |-> m[i].sum + sum] ELSE m[i]]
    ELSE Append(m, [cat |-> cat, sum |-> sum])

\* the for loop: products without a category are skipped
RECURSIVE MapOf(_)
MapOf(ps) ==
    IF ps = << >> THEN << >>
    ELSE LET m == MapOf(SubSeq(ps, 1, Len(ps) - 1))
             p == ps[Len(ps)]
         IN IF p.category = EmptyText THEN m
            ELSE MapSet(m, p.category, LineTotal(p))

Zero == [num |-> 0, den |-> 1]

\* A variant of Share: the fraction, not the percentage.
ShareAsFraction(sum, total) ==
    IF total > 0 THEN [num |-> sum, den |-> total] ELSE Zero

\* A variant of Share: no test of the total.
ShareUnguarded(sum, total) == [num |-> sum * 100, den |-> total]

\* total > 0 ? (sum / total) * 100 : 0
Share(sum, total) ==
    IF total > 0 THEN [num |-> sum * 100, den |-> total] ELSE Zero

\* A variant of InsertRow: the comparator is a.sum - b.sum.
RECURSIVE InsertRowAscending(_, _)
InsertRowAscending(sorted, r) ==
    IF sorted = << >> THEN <<r>>
    ELSE IF r.sum - Head(sorted).sum < 0
         THEN <<r>> \o sorted
         ELSE <<Head(sorted)>> \o InsertRowAscending(Tail(sorted), r)

\* out.sort((a, b) => b.sum - a.sum): stable, descending by sum
RECURSIVE InsertRow(_, _)
InsertRow(sorted, r) ==
    IF sorted = << >> THEN <<r>>
    ELSE IF Head(sorted).sum - r.sum < 0
         THEN <<r>> \o sorted
         ELSE <<Head(sorted)>> \o InsertRow(Tail(sorted), r)

RECURSIVE SortRows(_)
SortRows(rows) ==
    IF rows = << >> THEN << >>
    ELSE InsertRow(SortRows(SubSeq(rows, 1, Len(rows) - 1)), rows[Len(rows)])

\* Array.from(map.entries()).map(([cat, sum]) => ({ cat, sum, share }))
RowsOf(m, total) ==
    [i \in 1..Len(m) |->
        [cat |-> m[i].cat, sum |-> m[i].sum, share |-> Share(m[i].sum, total)]]

Summary(ps) ==
    [totalSum |-> TotalOf(ps), rows |-> SortRows(RowsOf(MapOf(ps), TotalOf(ps)))]

NoSummary == [totalSum |-> 0, rows |-> << >>]

----------------------------------------------------------------------------
(* Products *)

Ids == 1..MaxIds

IdsOf(ps) == {ps[i].id : i \in 1..Len(ps)}

\* ids a uuid() call cannot return: those of records alive in memory or storage
UsedIds ==
    IdsOf(products) \cup (IF lsProducts.kind = "json" THEN IdsOf(lsProducts.val) ELSE {})

FreshIds == Ids \ UsedIds

\* Unused ids are interchangeable: the specifications draw the least of them.
LeastFresh == {id \in FreshIds : \A other \in FreshIds : id <= other}

DefaultProducts(id1, id2) ==
    << [id |-> id1, name |-> "Telefon", qty |-> Num(10), price |-> Num(200),
        category |-> Xitoy],
       [id |-> id2, name |-> "Non", qty |-> Num(20), price |-> Num(10),
        category |-> Ozbekiston] >>

\* { id: uuid(), name: "", qty: 0, price: 0, category: categories[0] ?? "" }
NewRow(id, cs) ==
    [id |-> id, name |-> "", qty |-> Num(0), price |-> Num(0),
     category |-> IF cs # << >> THEN cs[1] ELSE EmptyText]

\* { ...p, ...patch }
Merge(p, patch) ==
    LET Pick(f) == IF f \in DOMAIN patch THEN patch[f] ELSE p[f]
    IN [id |-> Pick("id"), name |-> Pick("name"), qty |-> Pick("qty"),
        price |-> Pick("price"), category |-> Pick("category")]

\* prev.filter((p) => p.id !== id)
Filter(ps, id) == SelectSeq(ps, LAMBDA p : p.id # id)

\* A variant of MapPatch: the patch is merged into every row.
MapPatchAll(ps, id, patch) == [i \in 1..Len(ps) |-> Merge(ps[i], patch)]

\* prev.map((p) => (p.id === id ? { ...p, ...patch } : p))
MapPatch(ps, id, patch) ==
    [i \in 1..Len(ps) |-> IF ps[i].id = id THEN Merge(ps[i], patch) ELSE ps[i]]

----------------------------------------------------------------------------
(* Handlers.  Every handler that sets products or categories ends with the *)
(* useEffect that saves the collection it set (App.tsx 87-88); okP / okC   *)
(* say whether that setItem succeeded.                                     *)

\* useEffect(() => saveLS(LS_PRODUCTS, products), [products])
SaveProductsEffect(okP) ==
    /\ lsProducts' = SaveLS(lsProducts, StringifyProducts(products'), okP)
    /\ catched' = [catched EXCEPT !.products = Catched(okP)]
    /\ summary' = Summary(products')

\* useEffect(() => saveLS(LS_CATEGORIES, categories), [categories])
SaveCategoriesEffect(okC) ==
    /\ lsCategories' = SaveLS(lsCategories, StringifyCategories(categories'), okC)
    /\ catched' = [catched EXCEPT !.categories = Catched(okC)]

\* both effects, after a render that set both collections
SaveBothEffects(okP, okC) ==
    /\ lsProducts' = SaveLS(lsProducts, StringifyProducts(products'), okP)
    /\ lsCategories' = SaveLS(lsCategories, StringifyCategories(categories'), okC)
    /\ catched' = [products |-> Catched(okP), categories |-> Catched(okC)]
    /\ summary' = Summary(products')

AddRow(id, okP) ==
    /\ rendered
    /\ id \in FreshIds
    /\ products' = Append(products, NewRow(id, categories))
    /\ SaveProductsEffect(okP)
    /\ UNCHANGED <<categories, newCat, openAddCat, lsCategories, rendered>>

RemoveRow(id, okP) ==
    /\ rendered
    /\ products' = Filter(products, id)
    /\ SaveProductsEffect(okP)
    /\ UNCHANGED <<categories, newCat, openAddCat, lsCategories, rendered>>

UpdateRow(id, patch, okP) ==
    /\ rendered
    /\ products' = MapPatch(products, id, patch)
    /\ SaveProductsEffect(okP)
    /\ UNCHANGED <<categories, newCat, openAddCat, lsCategories, rendered>>

\* onOpenChange of the dialog
SetOpenAddCat(b) ==
    /\ rendered
    /\ openAddCat' = b
    /\ UNCHANGED <<categories, products, newCat, lsProducts, lsCategories,
                   catched, summary, rendered>>

\* onChange of the text field, which lives inside the open dialog
SetNewCat(text) ==
    /\ rendered
    /\ openAddCat
    /\ newCat' = text
    /\ UNCHANGED <<categories, products, openAddCat, lsProducts, lsCategories,
                   catched, summary, rendered>>

\* if (!trimmed) return
Rejected(trimmed) == trimmed = EmptyText

\* A variant of AppendLabel: [trimmed, ...c].
PrependLabel(c, trimmed) == <<trimmed>> \o c

\* [...c, trimmed]
AppendLabel(c, trimmed) == Append(c, trimmed)

\* addCategory's body, run with `typed` in the field of the open dialog
AddCategoryBody(typed, okC) ==
    LET trimmed == Trim(typed)
    IN IF Rejected(trimmed)
       THEN /\ newCat' = typed
            /\ openAddCat' = TRUE
            /\ UNCHANGED <<categories, products, lsProducts, lsCategories,
                           catched, summary, rendered>>
       ELSE /\ IF ~Includes(categories, trimmed)
               THEN /\ categories' = AppendLabel(categories, trimmed)
                    /\ SaveCategoriesEffect(okC)
               ELSE UNCHANGED <<categories, lsCategories, catched>>
            /\ newCat' = EmptyText
            /\ openAddCat' = FALSE
            /\ UNCHANGED <<products, lsProducts, summary, rendered>>

\* the dialog's button and the Enter key
AddCategory(okC) ==
    /\ rendered
    /\ openAddCat
    /\ AddCategoryBody(newCat, okC)

\* The user opens the dialog, types `typed` and presses Enter: onOpenChange,
\* onChange and addCategory one after the other.
EnterCategory(typed, okC) ==
    /\ rendered
    /\ AddCategoryBody(typed, okC)

\* A variant of Aborted: the answer to the prompt is not looked at.
NeverAborted(confirmed) == FALSE

\* if (!confirm("Barchasini tozalaysizmi?")) return
Aborted(confirmed) == ~confirmed

\* A variant of Cleared: setProducts is left out of the reset.
NotCleared(ps) == ps

\* setProducts([])
Cleared(ps) == << >>

ResetAll(confirmed, okP, okC) ==
    /\ rendered
    /\ IF Aborted(confirmed)
       THEN UNCHANGED vars
       ELSE /\ products' = Cleared(products)
            /\ categories' = DefaultCategories
            /\ SaveBothEffects(okP, okC)
            /\ UNCHANGED <<newCat, openAddCat, rendered>>

\* The page is loaded again: both useState initialisers read the storage, the
\* first render computes the summary and both effects save what was loaded.
\* id1 and id2 are the uuid()s of the fallback rows; nothing of the memory of
\* before is left, so any two distinct ids are fresh.
Restart(id1, id2, okP, okC) ==
    /\ rendered
    /\ id1 # id2
    /\ categories' = LoadLS(lsCategories, DefaultCategories)
    /\ products' = LoadLS(lsProducts, DefaultProducts(id1, id2))
    /\ newCat' = EmptyText
    /\ openAddCat' = FALSE
    /\ SaveBothEffects(okP, okC)
    /\ UNCHANGED rendered

\* The browser's storage loses or garbles a key between two handlers.
LoseProductsKey(raw) ==
    /\ rendered
    /\ raw \in {Absent, Garbage}
    /\ lsProducts' = raw
    /\ UNCHANGED <<categories, products, newCat, openAddCat, lsCategories,
                   catched, summary, rendered>>

LoseCategoriesKey(raw) ==
    /\ rendered
    /\ raw \in {Absent, Garbage}
    /\ lsCategories' = raw
    /\ UNCHANGED <<categories, products, newCat, openAddCat, lsProducts,
                   catched, summary, rendered>>

\* The first render of a product list: useMemo computes the summary.
Render ==
    /\ ~rendered
    /\ summary' = Summary(products)
    /\ rendered' = TRUE
    /\ UNCHANGED <<categories, products, newCat, openAddCat, lsProducts,
                   lsCategories, catched>>

----------------------------------------------------------------------------
(* Inputs *)

\* what the user types in the quantity field
QtyInputs == {Num(5)}

\* updateRow's patches: one field each; a category comes from the selector,
\* whose items are the current categories (App.tsx 290-294)
FieldPatches == {[qty |-> q] : q \in QtyInputs}

CategoryPatches == {[category |-> categories[i]] : i \in 1..Len(categories)}

\* what the user types in the dialog's field
TextChars == {" ", "T"}

Texts(n) == UNION {[1..k -> TextChars] : k \in 0..n}

AllTexts ==
    Texts(MaxTextLen) \cup {<<"t">>, Xitoy, <<" ">> \o Xitoy \o <<"\t">>, Ozbekiston}

FewTexts == {<<" ", "T">>, Xitoy}

\* removeRow / updateRow are given the id of a row, or an id no row has (the
\* ids no row has are interchangeable: the least stands for them)
Targets ==
    IdsOf(products)
        \cup {id \in Ids \ IdsOf(products) : \A other \in Ids \ IdsOf(products) : id <= other}

\* the category set has room for Trim(typed), or addCategory will not append
HasRoom(typed) ==
    \/ Len(categories) < MaxCats
    \/ Trim(typed) = EmptyText
    \/ Includes(categories, Trim(typed))

----------------------------------------------------------------------------
(* The application over a storage that may drop a write or lose a key. *)

\* First start: nothing stored, both initialisers fall back to the defaults,
\* the first render computes the summary and both effects save.
InitApp(id1, id2, okP, okC) ==
    /\ id1 # id2
    /\ categories = LoadLS(Absent, DefaultCategories)
    /\ products = LoadLS(Absent, DefaultProducts(id1, id2))
    /\ newCat = EmptyText
    /\ openAddCat = FALSE
    /\ lsProducts = SaveLS(Absent, StringifyProducts(products), okP)
    /\ lsCategories = SaveLS(Absent, StringifyCategories(categories), okC)
    /\ catched = [products |-> Catched(okP), categories |-> Catched(okC)]
    /\ summary = Summary(products)
    /\ rendered = TRUE

Init == \E okP, okC \in BOOLEAN : InitApp(1, 2, okP, okC)

\* A write may fail only when the write before it, to the same key, was kept.
OkP == IF catched.products THEN {TRUE} ELSE BOOLEAN

OkC == IF catched.categories THEN {TRUE} ELSE BOOLEAN

Next ==
    \/ \E id \in LeastFresh, okP \in OkP : Len(products) < MaxRows /\ AddRow(id, okP)
    \/ \E id \in Targets, okP \in OkP : RemoveRow(id, okP)
    \/ \E id \in Targets, patch \in CategoryPatches, okP \in OkP : UpdateRow(id, patch, okP)
    \/ \E typed \in FewTexts, okC \in OkC : HasRoom(typed) /\ EnterCategory(typed, okC)
    \/ \E confirmed \in BOOLEAN, okP \in OkP, okC \in OkC : ResetAll(confirmed, okP, okC)
    \/ \E okP \in OkP, okC \in OkC : Restart(1, 2, okP, okC)
    \/ \E raw \in {Absent, Garbage} : LoseProductsKey(raw)
    \/ \E raw \in {Absent, Garbage} : LoseCategoriesKey(raw)

Spec == Init /\ [][Next]_vars

----------------------------------------------------------------------------
(* The product table alone, over a storage that keeps every write: every   *)
(* kind of patch, more rows.                                               *)

InitStore == InitApp(1, 2, TRUE, TRUE)

NextStore ==
    \/ \E id \in LeastFresh : Len(products) < MaxStoreRows /\ AddRow(id, TRUE)
    \/ \E id \in Targets : RemoveRow(id, TRUE)
    \/ \E id \in Targets, patch \in FieldPatches \cup CategoryPatches :
          UpdateRow(id, patch, TRUE)
    \/ \E confirmed \in BOOLEAN : ResetAll(confirmed, TRUE, TRUE)

SpecStore == InitStore /\ [][NextStore]_vars

----------------------------------------------------------------------------
(* The category dialog alone: every text of the bounded alphabet.          *)

InitCat == InitApp(1, 2, TRUE, TRUE)

NextCat ==
    \/ \E b \in BOOLEAN : SetOpenAddCat(b)
    \/ \E text \in AllTexts : SetNewCat(text)
    \/ HasRoom(newCat) /\ AddCategory(TRUE)
    \/ \E confirmed \in BOOLEAN : ResetAll(confirmed, TRUE, TRUE)

SpecCat == InitCat /\ [][NextCat]_vars

----------------------------------------------------------------------------
(* The summary alone: the component holds any list of records the type     *)
(* Product and a parsed array admit (no category, NaN, null) and renders   *)
(* it for the first time.                                                  *)

AggQty == {NaN, Num(-1), Num(2)}
AggPrice == {Null, Num(1)}
AggCategories == {EmptyText, Xitoy, Ozbekiston, <<"T">>}

AggFields == [qty : AggQty, price : AggPrice, category : AggCategories]

\* a stored record: the i-th has id i
AggProduct(f, i) ==
    [id |-> i, name |-> "", qty |-> f.qty, price |-> f.price, category |-> f.category]

InitAgg ==
    /\ \E n \in 0..MaxAggLen : \E f \in [1..n -> AggFields] :
          products = [i \in 1..n |-> AggProduct(f[i], i)]
    /\ categories = DefaultCategories
    /\ newCat = EmptyText
    /\ openAddCat = FALSE
    /\ lsProducts = Absent
    /\ lsCategories = Absent
    /\ catched = [products |-> FALSE, categories |-> FALSE]
    /\ summary = NoSummary
    /\ rendered = FALSE

NextAgg == Render

SpecAgg == InitAgg /\ [][NextAgg]_vars

----------------------------------------------------------------------------
(* What the claims about the summary speak of, stated over the product     *)
(* list itself.                                                            *)

\* a quantity or price that is not a number counts as zero
AsNumber(x) == IF x.t = "num" THEN x.v ELSE 0

\* quantity x price of the records among the first n whose category is in cats
RECURSIVE Revenue(_, _, _)
Revenue(ps, n, cats) ==
    IF n = 0 THEN 0
    ELSE Revenue(ps, n - 1, cats)
            + (IF ps[n].category \in cats
               THEN AsNumber(ps[n].qty) * AsNumber(ps[n].price)
               ELSE 0)

CategoriesOf(ps) == {ps[i].category : i \in 1..Len(ps)}

CarriedCategories(ps) == CategoriesOf(ps) \ {EmptyText}

\* the sum of the shares of the first n rows, as a fraction
RECURSIVE ShareSum(_, _)
ShareSum(rows, n) ==
    IF n = 0 THEN [num |-> 0, den |-> 1]
    ELSE LET rest == ShareSum(rows, n - 1)
             s == rows[n].share
         IN [num |-> rest.num * s.den + s.num * rest.den, den |-> rest.den * s.den]

Abs(x) == IF x < 0 THEN -x ELSE x

\* every row's share is its category's revenue / total x 100
SharesAreOfTotal ==
    \A i \in 1..Len(summary.rows) :
        LET r == summary.rows[i]
        IN /\ r.sum = Revenue(products, Len(products), {r.cat})
           /\ r.share.den # 0
           /\ r.share.num * summary.totalSum = r.sum * 100 * r.share.den

\* C1: the total revenue is the sum, over all records and those with no
\* category among them, of quantity x price, a quantity or price that is not
\* a number counting as zero.
C1_TotalRevenue ==
    rendered =>
        summary.totalSum = Revenue(products, Len(products), CategoriesOf(products))

\* a rendered list with a record that has no category and one whose quantity
\* is not a number, and a total that is not zero
C1_Witness ==
    /\ rendered
    /\ summary.totalSum > 0
    /\ \E i \in 1..Len(products) :
          products[i].category = EmptyText /\ LineTotal(products[i]) # 0
    /\ \E i \in 1..Len(products) : products[i].qty = NaN
    /\ \E i \in 1..Len(products) : products[i].price = Null

\* C2 as stated: whenever the total is above zero and there are rows (and no
\* quantity or price is negative), the shares of the rows sum to 100, within
\* a hundredth, and every row's share is subtotal / total x 100.
C2_SharesSumTo100 ==
    (/\ rendered
     /\ summary.totalSum > 0
     /\ summary.rows # << >>
     /\ \A i \in 1..Len(products) :
           AsNumber(products[i].qty) >= 0 /\ AsNumber(products[i].price) >= 0) =>
        LET all == ShareSum(summary.rows, Len(summary.rows))
        IN /\ SharesAreOfTotal
           /\ all.den # 0
           /\ 100 * Abs(all.num - 100 * all.den) <= Abs(all.den)

\* C2, amended: whenever the total is above zero every row's share is its
\* subtotal / total x 100, and the shares sum to 100 x (the revenue of the
\* records that carry a category) / total: to 100 exactly when the records
\* with no category bring no revenue.
C2_SharesOfCategorised ==
    (rendered /\ summary.totalSum > 0) =>
        LET all == ShareSum(summary.rows, Len(summary.rows))
            carried == Revenue(products, Len(products), CarriedCategories(products))
            unset == Revenue(products, Len(products), {EmptyText})
        IN /\ SharesAreOfTotal
           /\ all.den # 0
           /\ all.num * summary.totalSum = 100 * carried * all.den
           /\ (all.num = 100 * all.den) <=> (unset = 0)

\* a total above zero, two rows, and revenue outside every category
C2_Witness ==
    /\ rendered
    /\ summary.totalSum > 0
    /\ Len(summary.rows) >= 2
    /\ Revenue(products, Len(products), {EmptyText}) # 0

\* C3: when the total is zero every row's share is 0 whatever its subtotal,
\* and there is a row for every category a record carries; an empty list gives
\* total 0 and no rows.
C3_ZeroTotal ==
    rendered =>
        /\ summary.totalSum = 0 =>
              /\ \A i \in 1..Len(summary.rows) :
                    summary.rows[i].share.num = 0 /\ summary.rows[i].share.den # 0
              /\ {summary.rows[i].cat : i \in 1..Len(summary.rows)}
                    = CarriedCategories(products)
        /\ products = << >> => summary.totalSum = 0 /\ summary.rows = << >>

\* a total of zero with a row whose subtotal is not zero
C3_Witness ==
    /\ rendered
    /\ summary.totalSum = 0
    /\ \E i \in 1..Len(summary.rows) : summary.rows[i].sum # 0

\* C4: the rows are in descending order of subtotal, and every category a
\* record carries has exactly one row.
C4_SortedRows ==
    rendered =>
        /\ \A i \in 1..(Len(summary.rows) - 1) :
              summary.rows[i].sum >= summary.rows[i + 1].sum
        /\ \A c \in CarriedCategories(products) :
              Cardinality({i \in 1..Len(summary.rows) : summary.rows[i].cat = c}) = 1
        /\ \A i \in 1..Len(summary.rows) :
              summary.rows[i].cat \in CarriedCategories(products)

\* three rows, in strictly descending order, the category met last on top
C4_Witness ==
    /\ rendered
    /\ Len(products) = 3
    /\ Len(summary.rows) = 3
    /\ summary.rows[1].cat = products[3].category
    /\ summary.rows[1].sum > summary.rows[2].sum
    /\ summary.rows[2].sum > summary.rows[3].sum

----------------------------------------------------------------------------
(* What the claims about the store speak of.                               *)

IsPrefix(a, b) == Len(a) <= Len(b) /\ SubSeq(b, 1, Len(a)) = a

NoDuplicates(cs) == \A i, j \in 1..Len(cs) : cs[i] = cs[j] => i = j

\* typed without the white space around it: the part from the first to the
\* last character that is not white space
Stripped(typed) ==
    LET solid == {i \in 1..Len(typed) : typed[i] \notin {" ", "\t", "\n"}}
    IN IF solid = {} THEN << >>
       ELSE LET first == CHOOSE i \in solid : \A j \in solid : i <= j
                last == CHOOSE i \in solid : \A j \in solid : j <= i
            IN SubSeq(typed, first, last)

\* the category set after addCategory, as C5 describes it
AfterAddCategory(cs, typed) ==
    LET label == Stripped(typed)
    IN IF label = << >> \/ (\E i \in 1..Len(cs) : cs[i] = label)
       THEN cs
       ELSE cs \o <<label>>

\* C5: addCategory leaves the category set as it is when the trimmed label is
\* empty or already there, and otherwise appends the trimmed label; after any
\* addCategory or reset no label occurs twice.
C5_AddCategory ==
    [][/\ AddCategory(TRUE) => categories' = AfterAddCategory(categories, newCat)
       /\ NoDuplicates(categories')]_vars

\* "T" was added, and then "t" or "T T" was typed
C5_Witness ==
    /\ categories = <<Xitoy, Ozbekiston, <<"T">>>>
    /\ openAddCat
    /\ newCat \in {<<"t">>, <<" ", "T", " ">>, <<" ">> \o Xitoy \o <<"\t">>}

\* C6: a reset does nothing unless the user confirms; confirmed, it empties
\* the product list and puts the two default labels in the category set.
C6_Reset ==
    [][\A confirmed, okP, okC \in BOOLEAN :
          ResetAll(confirmed, okP, okC) =>
              IF confirmed
              THEN products' = << >> /\ categories' = <<Xitoy, Ozbekiston>>
              ELSE products' = products /\ categories' = categories]_vars

\* after a confirmed reset whose categories write failed: the list is empty,
\* the set is the default, the storage still holds the three labels
C6_Witness ==
    /\ products = << >>
    /\ categories = <<Xitoy, Ozbekiston>>
    /\ lsCategories.kind = "json"
    /\ Len(lsCategories.val) = 3

\* a step of the page being loaded again
IsRestart == \E okP, okC \in BOOLEAN : Restart(1, 2, okP, okC)

\* both keys hold text that parses
BothStored == lsProducts.kind = "json" /\ lsCategories.kind = "json"

\* C7 as stated: after any operations, loading the page again gives the
\* product list and the category set that were in memory (both keys being
\* there and parsable).
C7_RestartRestores ==
    [][(IsRestart /\ BothStored) =>
          (products' = products /\ categories' = categories)]_vars

\* C7, amended: loading the page again gives the product list and the
\* category set that were in memory provided the last write of each key was
\* kept (saveLS drops a write that fails) and both keys are there and parsable.
C7_RestartRestoresKeptWrites ==
    [][(IsRestart /\ BothStored /\ ~catched.products /\ ~catched.categories) =>
          (products' = products /\ categories' = categories)]_vars

\* both keys written, a third label and a row that carries it
C7_Witness ==
    /\ BothStored
    /\ ~catched.products /\ ~catched.categories
    /\ Len(categories) = 3
    /\ \E i \in 1..Len(products) : products[i].category = categories[3]
    /\ lsProducts = StringifyProducts(products)
    /\ lsCategories = StringifyCategories(categories)

\* every record's category is unset or a label of the set
CategoriesKnown(ps, cs) ==
    \A i \in 1..Len(ps) :
        ps[i].category = << >> \/ (\E j \in 1..Len(cs) : cs[j] = ps[i].category)

\* what the two keys hold, the defaults standing for a key that is absent or
\* does not parse
StoredProducts == IF lsProducts.kind = "json" THEN lsProducts.val ELSE DefaultProducts(1, 2)

StoredCategories ==
    IF lsCategories.kind = "json" THEN lsCategories.val ELSE <<Xitoy, Ozbekiston>>

\* C8 as stated: in every reachable state every product's category is unset
\* or a label of the current category set.
C8_CategoriesKnown == CategoriesKnown(products, categories)

\* C8, amended: add, remove, update, addCategory and reset keep every
\* product's category unset or in the category set; loading the page again
\* gives such a state when the two keys agree (every stored product's category
\* is unset or among the stored labels), and not when a failed write or a lost
\* key has left them out of step.
C8_CategoriesKnownWhileStoredAgree ==
    [][IF IsRestart
       THEN CategoriesKnown(StoredProducts, StoredCategories)
                <=> CategoriesKnown(products', categories')
       ELSE CategoriesKnown(products, categories)
                => CategoriesKnown(products', categories')]_vars

\* a row carries the third label, and the stored category set lacks it
C8_Witness ==
    /\ Len(categories) = 3
    /\ \E i \in 1..Len(products) : products[i].category = categories[3]
    /\ CategoriesKnown(products, categories)
    /\ ~CategoriesKnown(StoredProducts, StoredCategories)

\* a step of add, remove, update or addCategory
IsEdit ==
    \/ \E id \in Ids, okP \in BOOLEAN : AddRow(id, okP)
    \/ \E id \in Ids, okP \in BOOLEAN : RemoveRow(id, okP)
    \/ \E id \in Ids, patch \in CategoryPatches, okP \in BOOLEAN : UpdateRow(id, patch, okP)
    \/ \E typed \in FewTexts, okC \in BOOLEAN : EnterCategory(typed, okC)

IsReset == \E confirmed, okP, okC \in BOOLEAN : ResetAll(confirmed, okP, okC)

\* C9 as stated: after add, remove, update, addCategory and reset alike, the
\* category sequence of before is a prefix of the one of after.
C9_AppendOnly == [][(IsEdit \/ IsReset) => IsPrefix(categories, categories')]_vars

\* C9, amended: after add, remove, update and addCategory the category
\* sequence of before is a prefix of the one of after; a confirmed reset puts
\* the two default labels in place of the set, every added label gone.
C9_AppendOnlyButReset ==
    [][/\ IsEdit => IsPrefix(categories, categories')
       /\ IsReset => categories' = <<Xitoy, Ozbekiston>>]_vars

\* a third label is in the set, after the defaults
C9_Witness ==
    /\ Len(categories) = 3
    /\ IsPrefix(<<Xitoy, Ozbekiston>>, categories)
    /\ lsCategories = StringifyCategories(categories)

\* ps without its k-th record
Without(ps, k) == [i \in 1..(Len(ps) - 1) |-> IF i < k THEN ps[i] ELSE ps[i + 1]]

\* q is p with the fields of patch, and only those, set to patch's values
Patched(p, q, patch) ==
    \A f \in {"id", "name", "qty", "price", "category"} :
        q[f] = IF f \in DOMAIN patch THEN patch[f] ELSE p[f]

\* C10: remove and update with an id no record has leave the list as it is;
\* with the id of a record, remove deletes that record and update merges the
\* patch into that record, the others keeping their values and their order.
C10_RemoveUpdate ==
    [][\A id \in Ids :
          /\ RemoveRow(id, TRUE) =>
                IF \E k \in 1..Len(products) : products[k].id = id
                THEN \E k \in 1..Len(products) :
                        products[k].id = id /\ products' = Without(products, k)
                ELSE products' = products
          /\ \A patch \in FieldPatches \cup CategoryPatches :
                UpdateRow(id, patch, TRUE) =>
                    /\ Len(products') = Len(products)
                    /\ \A i \in 1..Len(products) :
                          IF products[i].id = id
                          THEN Patched(products[i], products'[i], patch)
                          ELSE products'[i] = products[i]]_vars

\* of three rows the middle one was removed and the last one was updated
C10_Witness ==
    /\ Len(products) = 2
    /\ products[1].id = 1 /\ products[1].qty = Num(10)
    /\ products[2].id = 3 /\ products[2].qty = Num(5)
    /\ products[2].category = Ozbekiston

============================================================================
